---- MODULE Spec2Model ----
(***************************************************************************)
(* redux-easy-async: the async action-creator factory (src/async-action.js) *)
(* and the lifecycle middleware that consumes the actions it builds.        *)
(*                                                                          *)
(* JavaScript values are records with a `kind` tag.  An object literal is   *)
(* a record whose property slots hold "undefined" when the property is      *)
(* absent; functions are named by strings and applied by Call* operators.   *)
(***************************************************************************)
EXTENDS Integers, Sequences, FiniteSets, TLC

VARIABLES
    asyncConstantsCache,  \* async-constants: base type -> memoized constant set
    nextRef,              \* identity of the next constant-set object allocated
    creators,             \* action creators returned by createAsyncAction so far
    call,                 \* outcome of the latest factory / creator invocation
    state,                \* the redux store state (reducer-managed)
    log,                  \* actions that reached `next` (the reducers), in order
    requests,             \* in-flight request records, indexed by asyncID
    idCounter,            \* the unique-id generator's counter
    dispatches,           \* history: one record per store.dispatch by the application
    uncaught              \* the latest exception that propagated to the caller

vars == <<asyncConstantsCache, nextRef, creators, call, state, log, requests,
          idCounter, dispatches, uncaught>>

(***************************************************************************)
(* Bounds of the model.                                                     *)
(***************************************************************************)
MaxCreators == 3
MaxDispatch == 2

(***************************************************************************)
(* lib/constants                                                            *)
(***************************************************************************)
REDUX_EASY_ASYNC_NAMESPACE == "REDUX_EASY_ASYNC_NAMESPACE"

ERRORS == [ASYNC_TYPE_NOT_VALID      |-> "ASYNC_TYPE_NOT_VALID",
           ACTION_NOT_OBJECT         |-> "ACTION_NOT_OBJECT",
           MAKE_REQUEST_NOT_FUNCTION |-> "MAKE_REQUEST_NOT_FUNCTION"]

\* The engine's own error for reading a property of null or undefined.
TypeError == "TypeError"
NoError == "none"

(***************************************************************************)
(* JavaScript values that the user function fn can return.                  *)
(***************************************************************************)
Undefined == "undefined"
NotAFunction == "aString"

Props == {"type", "makeRequest", "shouldMakeRequest", "parseStart",
          "parseSuccess", "parseFail", "meta"}

JSValue(kind) ==
    [kind |-> kind, type |-> Undefined, makeRequest |-> Undefined,
     shouldMakeRequest |-> Undefined, parseStart |-> Undefined,
     parseSuccess |-> Undefined, parseFail |-> Undefined, meta |-> Undefined]

VNull      == JSValue("null")
VUndefined == JSValue("undefined")
VNumber    == JSValue("number")
VArray     == JSValue("array")
VFunction  == [JSValue("function") EXCEPT !.makeRequest = "fetch"]
VEmpty     == JSValue("object")
VBadMake   == [JSValue("object") EXCEPT !.makeRequest = NotAFunction]

\* typeof v
TypeOf(v) ==
    CASE v.kind \in {"null", "object", "array"} -> "object"
      [] v.kind = "function"  -> "function"
      [] v.kind = "number"    -> "number"
      [] v.kind = "undefined" -> "undefined"

\* typeof of a property slot
TypeOfProp(p) ==
    CASE p = Undefined    -> "undefined"
      [] p = NotAFunction -> "string"
      [] OTHER            -> "function"

\* Reading v.prop throws a TypeError when v is null or undefined.
CanReadProps(v) == v.kind \notin {"null", "undefined"}

(***************************************************************************)
(* async-constants: the memoized constant-set generator.                    *)
(***************************************************************************)
BaseTypes == {"GET_POSTS", "GET_USER"}

NoConstants == [ref |-> 0, START_TYPE |-> "", SUCCESS_TYPE |-> "",
                FAIL_TYPE |-> "", NAME |-> ""]

\* A fresh constant-set object; `ref` is its identity.
CreateAsyncConstants(type, ref) ==
    [ref |-> ref, START_TYPE |-> type \o "_START",
     SUCCESS_TYPE |-> type \o "_SUCCESS", FAIL_TYPE |-> type \o "_FAIL",
     NAME |-> type]

\* The `type` argument of createAsyncAction: a string, a constant-set
\* object, or anything else (here a number).
StringType(t)    == [kind |-> "string", name |-> t, obj |-> NoConstants]
ConstantsType(c) == [kind |-> "constants", name |-> "", obj |-> c]
NumberType       == [kind |-> "number", name |-> "", obj |-> NoConstants]

\* getOrCreateAsyncConstants(type): the cached set for a base type string,
\* created and cached on first use; a constant-set object is returned as it
\* is; anything else yields no constants.
GetOrCreateAsyncConstants(cache, ref, type) ==
    CASE type.kind = "string" /\ cache[type.name] # NoConstants ->
            [constants |-> cache[type.name], cache |-> cache, nextRef |-> ref]
      [] type.kind = "string" /\ cache[type.name] = NoConstants ->
            LET c == CreateAsyncConstants(type.name, ref)
            IN  [constants |-> c,
                 cache |-> [cache EXCEPT ![type.name] = c],
                 nextRef |-> ref + 1]
      [] type.kind = "constants" ->
            [constants |-> type.obj, cache |-> cache, nextRef |-> ref]
      [] OTHER ->
            [constants |-> NoConstants, cache |-> cache, nextRef |-> ref]

(***************************************************************************)
(* action: createAction(type) returns a creator of { type, payload, meta }. *)
(***************************************************************************)
CreateAction(type) == [actionType |-> type]

ApplyCreator(creator, payload, meta) ==
    [type |-> creator.actionType, payload |-> payload, meta |-> meta]

(***************************************************************************)
(* async-action: decorateActionCreator, createAsyncAction, actionCreator.   *)
(***************************************************************************)
\* Variant of decorateActionCreator whose start creator is built from
\* SUCCESS_TYPE.
DecorateStartIsSuccess(actionCreator, asyncConstants) ==
    [START_TYPE   |-> asyncConstants.START_TYPE,
     SUCCESS_TYPE |-> asyncConstants.SUCCESS_TYPE,
     FAIL_TYPE    |-> asyncConstants.FAIL_TYPE,
     NAME         |-> asyncConstants.NAME,
     start        |-> CreateAction(asyncConstants.SUCCESS_TYPE),
     success      |-> CreateAction(asyncConstants.SUCCESS_TYPE),
     fail         |-> CreateAction(asyncConstants.FAIL_TYPE),
     actionName   |-> asyncConstants.NAME] @@ actionCreator

\* Variant of decorateActionCreator whose fail creator is built from
\* SUCCESS_TYPE.
DecorateFailIsSuccess(actionCreator, asyncConstants) ==
    [START_TYPE   |-> asyncConstants.START_TYPE,
     SUCCESS_TYPE |-> asyncConstants.SUCCESS_TYPE,
     FAIL_TYPE    |-> asyncConstants.FAIL_TYPE,
     NAME         |-> asyncConstants.NAME,
     start        |-> CreateAction(asyncConstants.START_TYPE),
     success      |-> CreateAction(asyncConstants.SUCCESS_TYPE),
     fail         |-> CreateAction(asyncConstants.SUCCESS_TYPE),
     actionName   |-> asyncConstants.NAME] @@ actionCreator

\* _.assign(actionCreator, { START_TYPE, ..., actionName: NAME })
DecorateActionCreator(actionCreator, asyncConstants) ==
    [START_TYPE   |-> asyncConstants.START_TYPE,
     SUCCESS_TYPE |-> asyncConstants.SUCCESS_TYPE,
     FAIL_TYPE    |-> asyncConstants.FAIL_TYPE,
     NAME         |-> asyncConstants.NAME,
     start        |-> CreateAction(asyncConstants.START_TYPE),
     success      |-> CreateAction(asyncConstants.SUCCESS_TYPE),
     fail         |-> CreateAction(asyncConstants.FAIL_TYPE),
     actionName   |-> asyncConstants.NAME] @@ actionCreator

\* const { namespace = REDUX_EASY_ASYNC_NAMESPACE } = options
NamespaceOf(options) ==
    IF options.namespace = Undefined THEN REDUX_EASY_ASYNC_NAMESPACE
    ELSE options.namespace

NoCreator == DecorateActionCreator(
    [namespace |-> "", typeArg |-> NumberType, asyncConstants |-> NoConstants],
    NoConstants)

\* Variant of createAsyncAction that builds a new constant set for a string
\* type on every call instead of asking the memoizing generator.
CreateAsyncActionFresh(cache, ref, type, options) ==
    LET namespace == NamespaceOf(options)
        got == IF type.kind = "string"
               THEN [constants |-> CreateAsyncConstants(type.name, ref),
                     cache |-> [cache EXCEPT ![type.name] =
                                   CreateAsyncConstants(type.name, ref)],
                     nextRef |-> ref + 1]
               ELSE GetOrCreateAsyncConstants(cache, ref, type)
    IN  IF got.constants = NoConstants
        THEN [threw |-> ERRORS.ASYNC_TYPE_NOT_VALID, creator |-> NoCreator,
              cache |-> got.cache, nextRef |-> got.nextRef]
        ELSE [threw |-> NoError,
              creator |-> DecorateActionCreator(
                  [namespace |-> namespace, typeArg |-> type,
                   asyncConstants |-> got.constants], got.constants),
              cache |-> got.cache, nextRef |-> got.nextRef]

\* createAsyncAction(type, fn, options).  The closure of the returned creator
\* holds namespace, the type argument and asyncConstants.
CreateAsyncAction(cache, ref, type, options) ==
    LET namespace == NamespaceOf(options)
        got == GetOrCreateAsyncConstants(cache, ref, type)
    IN  IF got.constants = NoConstants
        THEN [threw |-> ERRORS.ASYNC_TYPE_NOT_VALID, creator |-> NoCreator,
              cache |-> got.cache, nextRef |-> got.nextRef]
        ELSE [threw |-> NoError,
              creator |-> DecorateActionCreator(
                  [namespace |-> namespace, typeArg |-> type,
                   asyncConstants |-> got.constants], got.constants),
              cache |-> got.cache, nextRef |-> got.nextRef]

\* The user function fn, taken to be the one that returns its first argument
\* (undefined when called without arguments), so that every invocation of a
\* creator can make fn return any value.
Fn(args) == IF Len(args) = 0 THEN VUndefined ELSE args[1]

NoAction ==
    [type |-> Undefined, makeRequest |-> Undefined,
     shouldMakeRequest |-> Undefined, parseStart |-> Undefined,
     parseSuccess |-> Undefined, parseFail |-> Undefined, meta |-> Undefined,
     actionCreatorArgs |-> <<>>, actionName |-> "",
     startActionCreator |-> CreateAction(""),
     successActionCreator |-> CreateAction(""),
     failActionCreator |-> CreateAction("")]

\* Variant of the returned object that copies makeRequest and the parsers but
\* not shouldMakeRequest.
BuildActionNoPredicate(creator, action, args) ==
    [type |-> IF action.type # Undefined THEN action.type
              ELSE creator.namespace,
     makeRequest |-> action.makeRequest,
     shouldMakeRequest |-> Undefined,
     parseStart |-> action.parseStart,
     parseSuccess |-> action.parseSuccess,
     parseFail |-> action.parseFail,
     meta |-> action.meta,
     actionCreatorArgs |-> args,
     actionName |-> creator.actionName,
     startActionCreator |-> creator.start,
     successActionCreator |-> creator.success,
     failActionCreator |-> creator.fail]

\* Variant of the returned object that copies makeRequest only (no spread of
\* the remaining configuration).
BuildActionNoSpread(creator, action, args) ==
    [type |-> creator.namespace,
     makeRequest |-> action.makeRequest,
     shouldMakeRequest |-> Undefined,
     parseStart |-> Undefined,
     parseSuccess |-> Undefined,
     parseFail |-> Undefined,
     meta |-> Undefined,
     actionCreatorArgs |-> args,
     actionName |-> creator.actionName,
     startActionCreator |-> creator.start,
     successActionCreator |-> creator.success,
     failActionCreator |-> creator.fail]

\* Variant of the returned object whose startActionCreator is the creator's
\* success creator.
BuildActionStartIsSuccess(creator, action, args) ==
    [type |-> IF action.type # Undefined THEN action.type
              ELSE creator.namespace,
     makeRequest |-> action.makeRequest,
     shouldMakeRequest |-> action.shouldMakeRequest,
     parseStart |-> action.parseStart,
     parseSuccess |-> action.parseSuccess,
     parseFail |-> action.parseFail,
     meta |-> action.meta,
     actionCreatorArgs |-> args,
     actionName |-> creator.actionName,
     startActionCreator |-> creator.success,
     successActionCreator |-> creator.success,
     failActionCreator |-> creator.fail]

\* { type: namespace, ...action, actionCreatorArgs: args, actionName, ... }:
\* own properties of `action` override the keys written before the spread,
\* the keys written after the spread override those of `action`.
BuildAction(creator, action, args) ==
    [type |-> IF action.type # Undefined THEN action.type
              ELSE creator.namespace,
     makeRequest |-> action.makeRequest,
     shouldMakeRequest |-> action.shouldMakeRequest,
     parseStart |-> action.parseStart,
     parseSuccess |-> action.parseSuccess,
     parseFail |-> action.parseFail,
     meta |-> action.meta,
     actionCreatorArgs |-> args,
     actionName |-> creator.actionName,
     startActionCreator |-> creator.start,
     successActionCreator |-> creator.success,
     failActionCreator |-> creator.fail]

\* actionCreator(...args)
ActionCreator(creator, args) ==
    LET action == Fn(args)
    IN  IF TypeOf(action) # "object"
        THEN [threw |-> ERRORS.ACTION_NOT_OBJECT, action |-> NoAction]
        ELSE IF ~CanReadProps(action)
        THEN [threw |-> TypeError, action |-> NoAction]
        ELSE IF TypeOfProp(action.makeRequest) # "function"
        THEN [threw |-> ERRORS.MAKE_REQUEST_NOT_FUNCTION, action |-> NoAction]
        ELSE [threw |-> NoError, action |-> BuildAction(creator, action, args)]

(***************************************************************************)
(* Values the application passes in: descriptors returned by fn, plain      *)
(* actions, namespaces, promise outcomes.                                   *)
(***************************************************************************)
OtherNamespace == "OTHER_NAMESPACE"

DPlain  == [JSValue("object") EXCEPT !.makeRequest = "fetch"]
DNever  == [DPlain EXCEPT !.shouldMakeRequest = "never"]
DIdle   == [DPlain EXCEPT !.shouldMakeRequest = "idle"]
DParse  == [DPlain EXCEPT !.shouldMakeRequest = "always",
                          !.parseStart = "note", !.parseSuccess = "wrap",
                          !.parseFail = "wrap", !.meta = "m"]
DTyped  == [DPlain EXCEPT !.type = "CUSTOM_TYPE"]

RequestDescriptors == {DPlain, DNever, DIdle, DParse, DTyped}
BadReturns == {VNull, VUndefined, VNumber, VArray, VFunction, VEmpty, VBadMake}
FnReturns == RequestDescriptors \cup BadReturns

\* What fn returns in the dispatches of the store specification: every request
\* descriptor, and one value for each designated error.
DispatchReturns == RequestDescriptors \cup {VNumber, VEmpty}

PlainAction == [NoAction EXCEPT !.type = "SET_FILTER"]

Responses == {<<"posts">>, <<"users">>}
Rejections == {<<"network down">>}
Null == <<>>

(***************************************************************************)
(* The store: reducer and state.  The reducer counts, per base type, the    *)
(* requests that have started and not yet finished.                         *)
(***************************************************************************)
InitialState == [t \in BaseTypes |-> 0]

Reducer(st, action) ==
    [t \in BaseTypes |->
        CASE action.type = t \o "_START"   -> st[t] + 1
          [] action.type = t \o "_SUCCESS" -> st[t] - 1
          [] action.type = t \o "_FAIL"    -> st[t] - 1
          [] OTHER -> st[t]]

(***************************************************************************)
(* middleware: createAsyncMiddleware() with the default namespace.          *)
(***************************************************************************)
MiddlewareNamespace == REDUX_EASY_ASYNC_NAMESPACE

\* Variant that acts on every action carrying a makeRequest function.
InterceptsAnyRequest(action) == action.makeRequest # Undefined

\* The middleware acts on an action only when its type is the namespace.
Intercepts(action) == action.type = MiddlewareNamespace

\* shouldMakeRequest(state); the default is () => true.
ShouldMakeRequest(action, st) ==
    CASE action.shouldMakeRequest = Undefined -> TRUE
      [] action.shouldMakeRequest = "always"  -> TRUE
      [] action.shouldMakeRequest = "never"   -> FALSE
      [] action.shouldMakeRequest = "idle"    -> \A t \in BaseTypes : st[t] = 0

\* parseStart(); the default is () => null.
ParseStart(action) ==
    IF action.parseStart = Undefined THEN Null ELSE <<"starting">>

\* parseSuccess(resp); the default is resp => resp.
ParseSuccess(action, resp) ==
    IF action.parseSuccess = Undefined THEN resp ELSE <<"parsed">> \o resp

\* parseFail(resp); the default is resp => resp.
ParseFail(action, resp) ==
    IF action.parseFail = Undefined THEN resp ELSE <<"parsed">> \o resp

\* Variant that increments the counter only on the first call.
UniqueIdStuck(counter) == [id |-> 1, counter |-> 1]

\* The unique-id generator: a counter incremented on every call.
UniqueId(counter) == [id |-> counter + 1, counter |-> counter + 1]

\* Logical clock: the number of actions the reducers have seen.
Now(lg) == Len(lg)

Meta(action, asyncType, asyncID, startTime) ==
    [actionName |-> action.actionName, asyncType |-> asyncType,
     asyncID |-> asyncID, requestStartTime |-> startTime,
     requestDuration |-> 0, resp |-> Null, userMeta |-> action.meta]

StartAction(action, asyncID, startTime) ==
    ApplyCreator(action.startActionCreator, ParseStart(action),
                 Meta(action, "start", asyncID, startTime))

SuccessAction(action, asyncID, startTime, now, resp) ==
    ApplyCreator(action.successActionCreator, ParseSuccess(action, resp),
                 [Meta(action, "success", asyncID, startTime) EXCEPT
                     !.requestDuration = now - startTime, !.resp = resp])

FailAction(action, asyncID, startTime, now, resp) ==
    ApplyCreator(action.failActionCreator, ParseFail(action, resp),
                 [Meta(action, "fail", asyncID, startTime) EXCEPT
                     !.requestDuration = now - startTime, !.resp = resp])

\* An entry of the log: the action handed to `next`, and the application
\* dispatch (index into dispatches) it stems from.
Entry(action, by) == [action |-> action, by |-> by]

(***************************************************************************)
(* Initial states.                                                          *)
(***************************************************************************)
NoCall == [op |-> "none", typeArg |-> NumberType, namespace |-> Undefined,
           creator |-> NoCreator, arg |-> VUndefined, threw |-> NoError,
           action |-> NoAction]

\* An exception that reached the caller: new Error(message).
Thrown(message) == [error |-> message, value |-> Null]
NoThrow == Thrown(NoError)

EmptyCache == [t \in BaseTypes |-> NoConstants]

StoreInit ==
    /\ state = InitialState
    /\ log = <<>>
    /\ requests = <<>>
    /\ idCounter = 0
    /\ dispatches = <<>>
    /\ uncaught = NoThrow

\* Nothing has been created yet.
InitCreate ==
    /\ asyncConstantsCache = EmptyCache
    /\ nextRef = 1
    /\ creators = <<>>
    /\ call = NoCall
    /\ StoreInit

\* The application module has been loaded: it created, in this order,
\*   getPosts   = createAsyncAction('GET_POSTS', fn)
\*   getUser    = createAsyncAction('GET_USER', fn)
\*   getPostsNS = createAsyncAction('GET_POSTS', fn, { namespace: OTHER })
\* and the store was created with one middleware of the default namespace.
Init ==
    LET c1 == CreateAsyncAction(EmptyCache, 1, StringType("GET_POSTS"),
                                [namespace |-> Undefined])
        c2 == CreateAsyncAction(c1.cache, c1.nextRef, StringType("GET_USER"),
                                [namespace |-> Undefined])
        c3 == CreateAsyncAction(c2.cache, c2.nextRef, StringType("GET_POSTS"),
                                [namespace |-> OtherNamespace])
    IN  /\ asyncConstantsCache = c3.cache
        /\ nextRef = c3.nextRef
        /\ creators = <<c1.creator, c2.creator, c3.creator>>
        /\ call = NoCall
        /\ StoreInit

(***************************************************************************)
(* Factory operations.                                                      *)
(***************************************************************************)
TypeInputs ==
    {StringType(t) : t \in BaseTypes} \cup {NumberType} \cup
    {ConstantsType(asyncConstantsCache[t]) :
        t \in {u \in BaseTypes : asyncConstantsCache[u] # NoConstants}}

OptionInputs == {[namespace |-> Undefined], [namespace |-> OtherNamespace]}

\* createAsyncAction(type, fn, options)
CreateStep(type, options) ==
    /\ Len(creators) < MaxCreators
    /\ LET res == CreateAsyncAction(asyncConstantsCache, nextRef, type, options)
       IN  /\ asyncConstantsCache' = res.cache
           /\ nextRef' = res.nextRef
           /\ creators' = IF res.threw = NoError
                          THEN Append(creators, res.creator) ELSE creators
           /\ call' = [NoCall EXCEPT !.op = "createAsyncAction",
                          !.typeArg = type, !.namespace = options.namespace,
                          !.creator = res.creator, !.threw = res.threw]
    /\ UNCHANGED <<state, log, requests, idCounter, dispatches, uncaught>>

\* creators[i](v): invoking an action creator without dispatching the result
InvokeStep(i, v) ==
    /\ LET res == ActionCreator(creators[i], <<v>>)
       IN  call' = [NoCall EXCEPT !.op = "actionCreator",
                       !.creator = creators[i], !.arg = v,
                       !.threw = res.threw, !.action = res.action]
    /\ UNCHANGED <<asyncConstantsCache, nextRef, creators, state, log,
                   requests, idCounter, dispatches, uncaught>>

(***************************************************************************)
(* Store operations.                                                        *)
(***************************************************************************)
Dispatched(action, desc, intercepted, evaluated, should, request) ==
    [action |-> action, desc |-> desc, stateAt |-> state,
     intercepted |-> intercepted, evaluated |-> evaluated,
     should |-> should, request |-> request]

\* store.dispatch(action): the middleware, then the reducers.  The start
\* action the middleware dispatches travels the same chain; its type is a
\* START_TYPE, never the namespace, so it reaches the reducers directly.
\* The application itself dispatches no action of a lifecycle type.
StoreDispatch(action, desc) ==
    LET d == Len(dispatches) + 1
    IN  IF ~Intercepts(action)
        THEN \* return next(action)
             /\ log' = Append(log, Entry(action, d))
             /\ state' = Reducer(state, action)
             /\ dispatches' = Append(dispatches,
                    Dispatched(action, desc, FALSE, FALSE, FALSE, 0))
             /\ UNCHANGED <<requests, idCounter>>
        ELSE IF ~ShouldMakeRequest(action, state)
        THEN /\ dispatches' = Append(dispatches,
                    Dispatched(action, desc, TRUE, TRUE, FALSE, 0))
             /\ UNCHANGED <<log, state, requests, idCounter>>
        ELSE LET u == UniqueId(idCounter)
                 start == StartAction(action, u.id, Now(log))
             IN  \* dispatch(start); makeRequest(state) is then awaited
                 /\ idCounter' = u.counter
                 /\ log' = Append(log, Entry(start, d))
                 /\ state' = Reducer(state, start)
                 /\ requests' = Append(requests,
                        [action |-> action, asyncID |-> u.id,
                         startTime |-> Now(log), by |-> d,
                         status |-> "pending", settled |-> Null])
                 /\ dispatches' = Append(dispatches,
                        Dispatched(action, desc, TRUE, TRUE, TRUE,
                                   Len(requests) + 1))

\* store.dispatch(creators[i](v))
DispatchAsync(i, v) ==
    /\ Len(dispatches) < MaxDispatch
    /\ LET res == ActionCreator(creators[i], <<v>>)
       IN  IF res.threw # NoError
           THEN /\ uncaught' = Thrown(res.threw)
                /\ UNCHANGED <<state, log, requests, idCounter, dispatches>>
           ELSE /\ StoreDispatch(res.action, v)
                /\ UNCHANGED uncaught
    /\ UNCHANGED <<asyncConstantsCache, nextRef, creators, call>>

\* store.dispatch({ type: 'SET_FILTER' })
DispatchPlain ==
    /\ Len(dispatches) < MaxDispatch
    /\ StoreDispatch(PlainAction, VEmpty)
    /\ UNCHANGED <<asyncConstantsCache, nextRef, creators, call, uncaught>>

\* The promise returned by makeRequest resolves with resp.
Resolve(k, resp) ==
    /\ requests[k].status = "pending"
    /\ LET q == requests[k]
           a == SuccessAction(q.action, q.asyncID, q.startTime, Now(log), resp)
       IN  /\ log' = Append(log, Entry(a, q.by))
           /\ state' = Reducer(state, a)
    /\ requests' = [requests EXCEPT ![k].status = "resolved",
                                    ![k].settled = resp]
    /\ UNCHANGED <<asyncConstantsCache, nextRef, creators, call, idCounter,
                   dispatches, uncaught>>

\* The promise returned by makeRequest rejects with resp.
Reject(k, resp) ==
    /\ requests[k].status = "pending"
    /\ LET q == requests[k]
           a == FailAction(q.action, q.asyncID, q.startTime, Now(log), resp)
       IN  /\ log' = Append(log, Entry(a, q.by))
           /\ state' = Reducer(state, a)
    /\ requests' = [requests EXCEPT ![k].status = "rejected",
                                    ![k].settled = resp]
    /\ UNCHANGED <<asyncConstantsCache, nextRef, creators, call, idCounter,
                   dispatches, uncaught>>

(***************************************************************************)
(* Specifications.                                                          *)
(***************************************************************************)
NextCreate ==
    \/ \E type \in TypeInputs, options \in OptionInputs : CreateStep(type, options)
    \/ \E i \in DOMAIN creators, v \in FnReturns : InvokeStep(i, v)

SpecCreate == InitCreate /\ [][NextCreate]_vars

Next ==
    \/ \E i \in DOMAIN creators, v \in DispatchReturns : DispatchAsync(i, v)
    \/ DispatchPlain
    \/ \E k \in DOMAIN requests, resp \in Responses : Resolve(k, resp)
    \/ \E k \in DOMAIN requests, resp \in Rejections : Reject(k, resp)

Spec == Init /\ [][Next]_vars

(***************************************************************************)
(* Properties of the factory functions (checked under SpecCreate).          *)
(***************************************************************************)
\* v is a non-null value of the language's Object type that is not callable.
IsObject(v) == v.kind \in {"object", "array"}

\* C4: whenever fn returns a value that is not an object containing a
\* makeRequest function, the creator throws a designated error and returns
\* no action: ACTION_NOT_OBJECT when the value is not an object,
\* MAKE_REQUEST_NOT_FUNCTION when it is an object whose makeRequest is not a
\* function.
C4_DesignatedErrorThrown ==
    call.op = "actionCreator" =>
        /\ ~IsObject(call.arg) =>
              call.threw = ERRORS.ACTION_NOT_OBJECT /\ call.action = NoAction
        /\ (IsObject(call.arg) /\ TypeOfProp(call.arg.makeRequest) # "function") =>
              call.threw = ERRORS.MAKE_REQUEST_NOT_FUNCTION /\ call.action = NoAction

\* C5: every action a creator returns has its type equal to the namespace of
\* the creator (options.namespace, or REDUX_EASY_ASYNC_NAMESPACE by default).
C5_TypeIsNamespace ==
    (call.op = "actionCreator" /\ call.threw = NoError) =>
        call.action.type = call.creator.namespace

\* C7: all calls of the constant generator with the same base type string
\* returned the identical constant set, whatever was requested in between,
\* and that set is the one still cached and is the one derived from the type.
C7_ConstantsStable ==
    \A i \in DOMAIN creators :
        creators[i].typeArg.kind = "string" =>
            LET t == creators[i].typeArg.name
            IN  /\ creators[i].asyncConstants = asyncConstantsCache[t]
                /\ creators[i].asyncConstants.START_TYPE = t \o "_START"
                /\ creators[i].asyncConstants.SUCCESS_TYPE = t \o "_SUCCESS"
                /\ creators[i].asyncConstants.FAIL_TYPE = t \o "_FAIL"
                /\ creators[i].asyncConstants.NAME = t
                /\ \A j \in DOMAIN creators :
                      creators[j].typeArg = creators[i].typeArg =>
                          creators[j].asyncConstants = creators[i].asyncConstants

\* The generator was called for a type, then for another type, then for the
\* first type again.
C7_Witness ==
    /\ Len(creators) >= 3
    /\ creators[1].typeArg = StringType("GET_POSTS")
    /\ creators[2].typeArg = StringType("GET_USER")
    /\ creators[3].typeArg = StringType("GET_POSTS")
    /\ creators[3].asyncConstants.ref = creators[1].asyncConstants.ref

(***************************************************************************)
(* Properties of the request lifecycle (checked under Spec).                *)
(***************************************************************************)
StartType(name)   == asyncConstantsCache[name].START_TYPE
SuccessType(name) == asyncConstantsCache[name].SUCCESS_TYPE
FailType(name)    == asyncConstantsCache[name].FAIL_TYPE

IsStart(a)   == \E t \in BaseTypes : a.type = StartType(t)
IsSuccess(a) == \E t \in BaseTypes : a.type = SuccessType(t)
IsFail(a)    == \E t \in BaseTypes : a.type = FailType(t)

\* Positions in the log of the actions of type T that stem from dispatch d.
EntriesOf(d, T) == {k \in DOMAIN log : log[k].by = d /\ log[k].action.type = T}
StartsOf(d)  == EntriesOf(d, StartType(dispatches[d].action.actionName))
SuccessOf(d) == EntriesOf(d, SuccessType(dispatches[d].action.actionName))
FailsOf(d)   == EntriesOf(d, FailType(dispatches[d].action.actionName))
RequestsOf(d) == {k \in DOMAIN requests : requests[k].by = d}

\* C1: an intercepted dispatch whose shouldMakeRequest predicate returns
\* false for the store state at the dispatch never leads to a start action,
\* a makeRequest call, or a success or fail action.
C1_NoStartWhenPredicateFalse ==
    \A d \in DOMAIN dispatches :
        (/\ Intercepts(dispatches[d].action)
         /\ dispatches[d].desc.shouldMakeRequest # Undefined
         /\ ~ShouldMakeRequest(dispatches[d].desc, dispatches[d].stateAt)) =>
            /\ \A k \in DOMAIN log : log[k].by # d
            /\ RequestsOf(d) = {}

\* A dispatch was suppressed by its predicate because another request was in
\* flight; that other request then finished.
C1_Witness ==
    /\ Len(dispatches) >= 2
    /\ dispatches[2].desc = DIdle
    /\ Intercepts(dispatches[2].action)
    /\ ~ShouldMakeRequest(DIdle, dispatches[2].stateAt)
    /\ Len(requests) = 1 /\ requests[1].status = "resolved"

\* C2: a request whose promise resolved with r has its start action first and
\* its success action afterwards, no fail action, and the success payload is
\* parseSuccess(r) (r itself without a parseSuccess).
C2_StartThenSuccess ==
    \A k \in DOMAIN requests :
        requests[k].status = "resolved" =>
            LET d == requests[k].by
            IN  /\ Cardinality(StartsOf(d)) = 1
                /\ Cardinality(SuccessOf(d)) = 1
                /\ FailsOf(d) = {}
                /\ \A s \in StartsOf(d), u \in SuccessOf(d) :
                      /\ s < u
                      /\ log[u].action.payload =
                            ParseSuccess(dispatches[d].desc, requests[k].settled)

\* One request resolved with a parseSuccess supplied, another without.
C2_Witness ==
    /\ \E k \in DOMAIN requests :
          /\ requests[k].status = "resolved"
          /\ dispatches[requests[k].by].desc = DParse
    /\ \E k \in DOMAIN requests :
          /\ requests[k].status = "resolved"
          /\ dispatches[requests[k].by].desc = DPlain

\* C3: a request whose promise rejected with e has its start action first and
\* its fail action afterwards, no success action, the fail payload is
\* parseFail(e) (e itself without a parseFail), and e was not thrown.
C3_StartThenFail ==
    \A k \in DOMAIN requests :
        requests[k].status = "rejected" =>
            LET d == requests[k].by
            IN  /\ Cardinality(StartsOf(d)) = 1
                /\ Cardinality(FailsOf(d)) = 1
                /\ SuccessOf(d) = {}
                /\ \A s \in StartsOf(d), f \in FailsOf(d) :
                      /\ s < f
                      /\ log[f].action.payload =
                            ParseFail(dispatches[d].desc, requests[k].settled)
                /\ uncaught.value # requests[k].settled

\* One request rejected with a parseFail supplied, another without.
C3_Witness ==
    /\ \E k \in DOMAIN requests :
          /\ requests[k].status = "rejected"
          /\ dispatches[requests[k].by].desc = DParse
    /\ \E k \in DOMAIN requests :
          /\ requests[k].status = "rejected"
          /\ dispatches[requests[k].by].desc = DPlain

\* C6: no two requests share an asyncID, and every start, success and fail
\* action carries the asyncID of the request it belongs to.
C6_AsyncIdUnique ==
    /\ \A j, k \in DOMAIN requests :
          j # k => requests[j].asyncID # requests[k].asyncID
    /\ \A k \in DOMAIN requests, e \in DOMAIN log :
          (log[e].by = requests[k].by
           /\ (IsStart(log[e].action) \/ IsSuccess(log[e].action)
               \/ IsFail(log[e].action))) =>
              log[e].action.meta.asyncID = requests[k].asyncID

\* Two requests of the same async action were in flight together and both
\* have finished.
C6_Witness ==
    /\ Len(requests) >= 2
    /\ requests[1].action.actionName = requests[2].action.actionName
    /\ requests[1].status = "rejected" /\ requests[2].status = "resolved"
    /\ \E e \in DOMAIN log :
          /\ log[e].by = requests[2].by
          /\ IsStart(log[e].action)
          /\ \A f \in DOMAIN log :
                (log[f].by = requests[1].by /\ IsFail(log[f].action)) => e < f

\* C8: every intercepted dispatch whose predicate does not return false gets
\* its own start action and its own makeRequest call, and its own single
\* success or fail action once its promise settles, whatever other requests
\* are in flight and in whatever order they settle.
C8_NoDeduplication ==
    \A d \in DOMAIN dispatches :
        (/\ Intercepts(dispatches[d].action)
         /\ ShouldMakeRequest(dispatches[d].desc, dispatches[d].stateAt)) =>
            /\ Cardinality(StartsOf(d)) = 1
            /\ Cardinality(RequestsOf(d)) = 1
            /\ \A k \in RequestsOf(d) :
                  /\ requests[k].status = "pending" =>
                        SuccessOf(d) = {} /\ FailsOf(d) = {}
                  /\ requests[k].status = "resolved" =>
                        Cardinality(SuccessOf(d)) = 1 /\ FailsOf(d) = {}
                  /\ requests[k].status = "rejected" =>
                        Cardinality(FailsOf(d)) = 1 /\ SuccessOf(d) = {}

\* The same async action was dispatched twice without a predicate, the second
\* time while the first request was in flight; the second request settled
\* first.
C8_Witness ==
    /\ Len(dispatches) >= 2 /\ Len(requests) >= 2
    /\ dispatches[1].desc = DPlain /\ dispatches[2].desc = DPlain
    /\ dispatches[1].action = dispatches[2].action
    /\ dispatches[2].stateAt[dispatches[1].action.actionName] = 1
    /\ requests[1].status # "pending" /\ requests[2].status # "pending"
    /\ \A e \in SuccessOf(1) \cup FailsOf(1), f \in SuccessOf(2) \cup FailsOf(2) :
          f < e

\* C9: a request has no success or fail action while its promise is pending
\* and exactly one once it has settled; every success or fail action in the
\* log is preceded by the start action of the same request.
C9_OneTerminalAfterStart ==
    /\ \A k \in DOMAIN requests :
          LET terminal == {e \in DOMAIN log :
                              /\ log[e].by = requests[k].by
                              /\ (IsSuccess(log[e].action) \/ IsFail(log[e].action))}
          IN  Cardinality(terminal) =
                  IF requests[k].status = "pending" THEN 0 ELSE 1
    /\ \A e \in DOMAIN log :
          (IsSuccess(log[e].action) \/ IsFail(log[e].action)) =>
              \E s \in DOMAIN log :
                  /\ s < e
                  /\ log[s].by = log[e].by
                  /\ IsStart(log[s].action)
                  /\ log[s].action.meta.asyncID = log[e].action.meta.asyncID

\* One request has settled while another is still pending.
C9_Witness ==
    /\ \E k \in DOMAIN requests : requests[k].status = "pending"
    /\ \E k \in DOMAIN requests : requests[k].status = "rejected"

\* C10: an action whose type is not the namespace reaches the next handler
\* once and unchanged, and causes no start, success or fail action, no
\* makeRequest call and no evaluation of shouldMakeRequest.
C10_OtherTypesPassThrough ==
    \A d \in DOMAIN dispatches :
        dispatches[d].action.type # MiddlewareNamespace =>
            /\ Cardinality({e \in DOMAIN log : log[e].by = d}) = 1
            /\ \A e \in DOMAIN log :
                  log[e].by = d => log[e].action = dispatches[d].action
            /\ RequestsOf(d) = {}
            /\ ~dispatches[d].evaluated

\* An async action built for another namespace, with a predicate and a
\* makeRequest, was dispatched, and so was a plain action.
C10_Witness ==
    /\ \E d \in DOMAIN dispatches :
          /\ dispatches[d].action.type = OtherNamespace
          /\ dispatches[d].action.shouldMakeRequest = "never"
    /\ \E d \in DOMAIN dispatches : dispatches[d].action = PlainAction

====
